---- MODULE Spec2Model ----
(***************************************************************************)
(* Model of package formy (src/multipart.go): Writer, a chained builder    *)
(* of multipart/form-data bodies over mime/multipart.Writer with a latched *)
(* first error.  src/multipart.go holds two variants of the package: the   *)
(* earlier one (lines 1-177, no conditional writers, WriteFile streams the *)
(* reader) and the later one (lines 179-495, conditional writers,          *)
(* WriteFile buffers the reader).  variant says which one is running.      *)
(***************************************************************************)
EXTENDS Integers, Sequences, FiniteSets, TLC

VARIABLES
    variant,    \* 1: the earlier variant (lines 1-177), 2: the later one (179-495)
    detectCt,   \* Writer.detectCt
    firstErr,   \* Writer.firstErr, "nil" or the error's message
    out,        \* what mw has emitted to the io.Writer: parts and terminating boundaries
    boundary,   \* the boundary token w.mw drew at construction
    errLog,     \* history: the errors the write operations ran into, in call order
    sent,       \* history: the write calls that were not skipped and ran without error
    last        \* history: the last call, its predicate evaluations and its result

vars == <<variant, detectCt, firstErr, out, boundary, errLog, sent, last>>

(***************************************************************************)
(* Bounds and input sets.                                                  *)
(***************************************************************************)
MaxOut == 1         \* parts and terminating boundaries emitted to the stream
MaxLog == 2         \* errors kept in errLog
ReadLimit == 2      \* bytes mimetype.DetectReader takes from a reader (3072, scaled)

NIL == "nil"
QUOTE == "\""
BACKSLASH == "\\"

\* what the calls of Next are made with
Names == { <<>>, <<"a">> }
FileNames == { <<>>, <<"f">> }
Strs == { <<"t">> }
Ints == { 42 }
Bools == { FALSE }
Floats == { 42 }            \* hundredths: 0.42
Payloads == { <<"T", "E", "S">> }
IOs == { "ok", "openFail", "writeFail" }
Conds == { <<TRUE, TRUE>>, <<TRUE, FALSE>>, <<FALSE, TRUE>>, <<FALSE, FALSE>> }

\* the wider sets the properties of a single call range over
AllNames == Names \cup { <<QUOTE>>, <<"a", BACKSLASH>> }
AllStrs == Strs \cup { <<>> }
AllInts == Ints \cup { 0, -7 }
AllFloats == Floats \cup { 0, 150 }
AllPayloads == Payloads \cup { <<>>, <<"%">> }

\* values of type any
Nil == [k |-> "nil", v |-> 0]
IntV(i) == [k |-> "int", v |-> i]
BoolV(b) == [k |-> "bool", v |-> b]
StrV(s) == [k |-> "string", v |-> s]
F32V(h) == [k |-> "float32", v |-> h]
F64V(h) == [k |-> "float64", v |-> h]
ChanV == [k |-> "chan", v |-> 0]

AnyVals == { Nil, IntV(42) }
JSONVals == { Nil, StrV(<<"<">>), ChanV }
AllAnyVals == AnyVals \cup { BoolV(TRUE), StrV(<<>>), F64V(150) }

\* io.Reader arguments: nil, or a reader with its remaining bytes, which ends
\* in io.EOF or in a read error
NilReader == [nil |-> TRUE, data |-> <<>>, fail |-> FALSE]
Reader(d, f) == [nil |-> FALSE, data |-> d, fail |-> f]
Readers == {NilReader} \cup { Reader(d, f) : d \in Payloads, f \in BOOLEAN }
AllReaders == {NilReader} \cup { Reader(d, f) : d \in AllPayloads, f \in BOOLEAN }

(***************************************************************************)
(* Text rendering: fmt.Fprint(part, val) and json.Encoder.Encode(v).       *)
(***************************************************************************)
DigitChars == <<"0", "1", "2", "3", "4", "5", "6", "7", "8", "9">>

RECURSIVE NatToText(_)
NatToText(n) ==
    IF n < 10 THEN <<DigitChars[n + 1]>>
    ELSE NatToText(n \div 10) \o <<DigitChars[(n % 10) + 1]>>

IntToText(i) == IF i < 0 THEN <<"-">> \o NatToText(-i) ELSE NatToText(i)

\* %v of a float given in hundredths: the shortest decimal text
FloatToText(h) ==
    LET whole == h \div 100
        frac == h % 100
    IN  IF frac = 0 THEN NatToText(whole)
        ELSE NatToText(whole) \o <<".">> \o
             (IF frac % 10 = 0 THEN <<DigitChars[(frac \div 10) + 1]>>
              ELSE <<DigitChars[(frac \div 10) + 1], DigitChars[(frac % 10) + 1]>>)

\* the bytes fmt.Fprint(part, val) writes
Fprint(val) ==
    CASE val.k = "nil" -> <<"<", "n", "i", "l", ">">>
      [] val.k = "int" -> IntToText(val.v)
      [] val.k = "bool" -> IF val.v THEN <<"t", "r", "u", "e">>
                           ELSE <<"f", "a", "l", "s", "e">>
      [] val.k = "string" -> val.v
      [] val.k \in {"float32", "float64"} -> FloatToText(val.v)
      [] OTHER -> <<"?">>

\* json.Encoder.Encode with SetEscapeHTML(false): the text and a newline,
\* or an error for a value JSON cannot represent
JSONEncode(v) ==
    CASE v.k = "nil" -> [err |-> NIL, text |-> <<"n", "u", "l", "l", "\n">>]
      [] v.k = "int" -> [err |-> NIL, text |-> IntToText(v.v) \o <<"\n">>]
      [] v.k = "bool" -> [err |-> NIL, text |-> Fprint(v) \o <<"\n">>]
      [] v.k = "string" -> [err |-> NIL, text |-> <<QUOTE>> \o v.v \o <<QUOTE, "\n">>]
      [] OTHER -> [err |-> "json: unsupported type", text |-> <<>>]

(***************************************************************************)
(* Headers.                                                                *)
(***************************************************************************)
RECURSIVE Replace(_, _)
\* strings.Replacer.Replace: one pass, each byte replaced by rep[byte] when
\* rep has it
Replace(rep, raw) ==
    IF raw = <<>> THEN <<>>
    ELSE (IF Head(raw) \in DOMAIN rep THEN rep[Head(raw)] ELSE <<Head(raw)>>)
         \o Replace(rep, Tail(raw))

quoteReplacer == (BACKSLASH :> <<BACKSLASH, BACKSLASH>>) @@ (QUOTE :> <<BACKSLASH, BACKSLASH>>)

escapeQuotes(raw) == Replace(quoteReplacer, raw)

\* mime/multipart's own escapeQuotes, used by multipart.Writer.WriteField
mwEscapeQuotes(raw) ==
    Replace((BACKSLASH :> <<BACKSLASH, BACKSLASH>>) @@ (QUOTE :> <<BACKSLASH, QUOTE>>), raw)

\* mimetype.Detect: never fails, a MIME type for any buffer
Detect(buf) ==
    IF buf = <<>> THEN "text/plain"
    ELSE IF Head(buf) = "%" THEN "application/pdf"
    ELSE "text/plain; charset=utf-8"

NoCT == "none"      \* a header without Content-Type
OctetStream == "application/octet-stream"

Header(name, isFile, filename, ct) ==
    [name |-> name, file |-> isFile, filename |-> filename, ct |-> ct]

textFieldHeader(fieldname) == Header(escapeQuotes(fieldname), FALSE, <<>>, NoCT)

\* the later variant: buf is [nil, data]
NilBuf == [nil |-> TRUE, data |-> <<>>]
Buf(d) == [nil |-> FALSE, data |-> d]

fileFieldHeader(fieldname, filename, buf) ==
    Header(escapeQuotes(fieldname), TRUE, escapeQuotes(filename),
           IF ~buf.nil THEN Detect(buf.data) ELSE OctetStream)

Min(a, b) == IF a < b THEN a ELSE b

\* mimetype.DetectReader: io.ReadFull of up to ReadLimit bytes; a read error
\* other than the end of the input is returned
DetectReader(file) ==
    LET n == Min(Len(file.data), ReadLimit)
        hitEnd == Len(file.data) < ReadLimit
    IN  [err |-> IF hitEnd /\ file.fail THEN "read error" ELSE NIL,
         ct |-> Detect(SubSeq(file.data, 1, n)),
         file |-> [file EXCEPT !.data = SubSeq(@, n + 1, Len(@))]]

\* the earlier variant: detection reads from the reader itself; the result
\* is the header and the reader as detection left it
fileFieldHeaderV1(fieldname, filename, file, detect) ==
    LET cd == Header(escapeQuotes(fieldname), TRUE, escapeQuotes(filename), NoCT)
        d == DetectReader(file)
    IN  IF ~file.nil /\ detect
        THEN [h |-> IF d.err # NIL THEN cd ELSE [cd EXCEPT !.ct = d.ct], file |-> d.file]
        ELSE [h |-> cd, file |-> file]

(***************************************************************************)
(* mime/multipart.Writer over the output stream.  The stream is the        *)
(* sequence of what was emitted: parts (header and body) and terminating   *)
(* boundaries.                                                             *)
(***************************************************************************)
Part(h, body) ==
    [t |-> "part", name |-> h.name, file |-> h.file, filename |-> h.filename,
     ct |-> h.ct, body |-> body]
End == [t |-> "end", name |-> <<>>, file |-> FALSE, filename |-> <<>>,
        ct |-> NoCT, body |-> <<>>]

\* multipart.Writer.CreatePart: boundary line and headers, or the sink's error
CreatePart(o, h, io) ==
    IF io = "openFail" THEN [err |-> "io: open", out |-> o]
    ELSE [err |-> NIL, out |-> Append(o, Part(h, <<>>))]

\* part.Write(bytes) on the part CreatePart has just opened
PartWrite(o, bytes, io) ==
    IF io = "writeFail" THEN [err |-> "io: write", out |-> o]
    ELSE [err |-> NIL, out |-> [o EXCEPT ![Len(o)].body = @ \o bytes]]

\* multipart.Writer.WriteField: CreateFormField then Write
MwWriteField(o, fieldname, value, io) ==
    LET p == CreatePart(o, Header(mwEscapeQuotes(fieldname), FALSE, <<>>, NoCT), io)
    IN  IF p.err # NIL THEN p ELSE PartWrite(p.out, value, io)

\* multipart.Writer.Close: the terminating boundary, or the sink's error
MwClose(o, closeOk) ==
    IF closeOk THEN [err |-> NIL, out |-> Append(o, End)]
    ELSE [err |-> "io: close", out |-> o]

(***************************************************************************)
(* Writer operations, as functions of the writer w = [detectCt, firstErr,  *)
(* out: what w.mw has emitted] and                                         *)
(* the call's arguments.  w also carries the history of the run (errLog,   *)
(* sent) and of the call (calls: evaluations of the predicate; ret: what   *)
(* Close returned; mwRet: what mw.Close returned, NotCalled when it was    *)
(* not invoked).  A predicate cond is the sequence of the answers it gives *)
(* to successive invocations.  io is what the sink does during the call.   *)
(***************************************************************************)
NotCalled == "not called"

\* w.firstErr = e at a place where the call has run into error e
Latch(w, e) ==
    [w EXCEPT !.firstErr = e,
              !.errLog = IF Len(@) < MaxLog THEN Append(@, e) ELSE @]

\* history: the call (op, field, filename, value) has written its part
Wrote(w, op, fieldname, filename, val) ==
    [w EXCEPT !.sent = Append(@, [op |-> op, field |-> fieldname,
                                  filename |-> filename, val |-> val])]

\* cond(): the next answer of the predicate
Answer(w, cond) == cond[w.calls + 1]
Asked(w) == [w EXCEPT !.calls = @ + 1]

\* WriteString without its check of firstErr: the result of WriteField is
\* assigned whatever firstErr holds
WriteStringOverwrites(w, fieldname, str, io) ==
    LET r == MwWriteField(w.out, fieldname, str, io)
    IN  [w EXCEPT !.out = r.out, !.firstErr = r.err]

WriteString(w, fieldname, str, io) ==
    IF w.firstErr = NIL
    THEN LET r == MwWriteField(w.out, fieldname, str, io)
             w1 == [w EXCEPT !.out = r.out]
         IN  IF r.err # NIL THEN Latch(w1, r.err)
             ELSE Wrote(w1, "string", fieldname, <<>>, StrV(str))
    ELSE w

WriteStringCond(w, fieldname, str, cond, io) ==
    IF Answer(w, cond) THEN WriteString(Asked(w), fieldname, str, io)
    ELSE Asked(w)

\* CreatePart(textFieldHeader(fieldname)) and fmt.Fprint(part, val)
PrintPart(w, fieldname, val, io) ==
    LET p == CreatePart(w.out, textFieldHeader(fieldname), io)
        b == PartWrite(p.out, Fprint(val), io)
    IN  IF p.err # NIL THEN Latch(w, p.err)
        ELSE IF b.err # NIL THEN Latch([w EXCEPT !.out = b.out], b.err)
        ELSE Wrote([w EXCEPT !.out = b.out], "text", fieldname, <<>>, val)

WriteAnyTextField(w, fieldname, val, io) ==
    IF w.firstErr = NIL
    THEN IF fieldname = <<>> THEN Latch(w, "empty field name")
         ELSE IF val = Nil THEN Latch(w, "empty field value")
         ELSE PrintPart(w, fieldname, val, io)
    ELSE w

\* WriteAnyTextFieldCond checking the field name before it asks the
\* predicate, as WriteJSONCond does
WriteAnyTextFieldCondNameFirst(w, fieldname, val, cond, io) ==
    IF w.firstErr = NIL
    THEN IF fieldname = <<>> THEN Latch(w, "empty field name")
         ELSE IF ~Answer(w, cond) THEN Asked(w)
         ELSE PrintPart(Asked(w), fieldname, val, io)
    ELSE w

WriteAnyTextFieldCond(w, fieldname, val, cond, io) ==
    IF w.firstErr = NIL
    THEN IF Answer(w, cond)
         THEN LET w1 == Asked(w)
              IN  IF fieldname = <<>> THEN Latch(w1, "empty field name")
                  ELSE IF ~Answer(w1, cond) THEN Asked(w1)
                  ELSE PrintPart(Asked(w1), fieldname, val, io)
         ELSE Asked(w)
    ELSE w

WriteInt(w, fieldname, i, io) == WriteAnyTextField(w, fieldname, IntV(i), io)

WriteIntCond(w, fieldname, i, cond, io) ==
    IF Answer(w, cond) THEN WriteAnyTextField(Asked(w), fieldname, IntV(i), io)
    ELSE Asked(w)

WriteBool(w, fieldname, b, io) == WriteAnyTextField(w, fieldname, BoolV(b), io)

WriteBoolCond(w, fieldname, b, cond, io) ==
    IF Answer(w, cond) THEN WriteAnyTextField(Asked(w), fieldname, BoolV(b), io)
    ELSE Asked(w)

WriteFloat32(w, fieldname, f, io) == WriteAnyTextField(w, fieldname, F32V(f), io)

WriteFloat32Cond(w, fieldname, f, cond, io) ==
    IF Answer(w, cond) THEN WriteAnyTextField(Asked(w), fieldname, F32V(f), io)
    ELSE Asked(w)

WriteFloat64(w, fieldname, f, io) == WriteAnyTextField(w, fieldname, F64V(f), io)

WriteFloat64Cond(w, fieldname, f, cond, io) ==
    IF Answer(w, cond) THEN WriteAnyTextField(Asked(w), fieldname, F64V(f), io)
    ELSE Asked(w)

\* CreatePart(textFieldHeader(fieldname)) and json.NewEncoder(part).Encode(v)
EncodePart(w, fieldname, v, io) ==
    LET p == CreatePart(w.out, textFieldHeader(fieldname), io)
        j == JSONEncode(v)
        b == PartWrite(p.out, j.text, io)
    IN  IF p.err # NIL THEN Latch(w, p.err)
        ELSE IF j.err # NIL THEN Latch([w EXCEPT !.out = p.out], j.err)
        ELSE IF b.err # NIL THEN Latch([w EXCEPT !.out = b.out], b.err)
        ELSE Wrote([w EXCEPT !.out = b.out], "json", fieldname, <<>>, v)

\* WriteJSON without its check of firstErr
WriteJSONUnguarded(w, fieldname, v, io) ==
    IF fieldname = <<>> THEN Latch(w, "empty field name")
    ELSE IF v = Nil THEN Latch(w, "empty field value")
    ELSE EncodePart(w, fieldname, v, io)

WriteJSON(w, fieldname, v, io) ==
    IF w.firstErr = NIL
    THEN IF fieldname = <<>> THEN Latch(w, "empty field name")
         ELSE IF v = Nil THEN Latch(w, "empty field value")
         ELSE EncodePart(w, fieldname, v, io)
    ELSE w

\* WriteJSONCond asking the predicate before it checks the field name, as
\* WriteAnyTextFieldCond does
WriteJSONCondAsksFirst(w, fieldname, v, cond, io) ==
    IF w.firstErr = NIL
    THEN IF ~Answer(w, cond) THEN Asked(w)
         ELSE IF fieldname = <<>> THEN Latch(Asked(w), "empty field name")
         ELSE EncodePart(Asked(w), fieldname, v, io)
    ELSE w

WriteJSONCond(w, fieldname, v, cond, io) ==
    IF w.firstErr = NIL
    THEN IF fieldname = <<>> THEN Latch(w, "empty field name")
         ELSE IF ~Answer(w, cond) THEN Asked(w)
         ELSE EncodePart(Asked(w), fieldname, v, io)
    ELSE w

\* the later variant: io.ReadAll(file), then the header, the part and one
\* part.Write(buf)
WriteFile(w, fieldname, filename, file, io) ==
    IF w.firstErr = NIL
    THEN IF fieldname = <<>> THEN Latch(w, "empty field name")
         ELSE IF filename = <<>> THEN Latch(w, "empty file name")
         ELSE IF file.nil THEN Latch(w, "empty file reader")
         ELSE IF file.fail THEN Latch(w, "read error")
         ELSE LET buf == Buf(file.data)
                  h == IF w.detectCt THEN fileFieldHeader(fieldname, filename, buf)
                       ELSE fileFieldHeader(fieldname, filename, NilBuf)
                  p == CreatePart(w.out, h, io)
                  b == PartWrite(p.out, buf.data, io)
              IN  IF p.err # NIL THEN Latch(w, p.err)
                  ELSE IF b.err # NIL THEN Latch([w EXCEPT !.out = b.out], b.err)
                  ELSE Wrote([w EXCEPT !.out = b.out], "file", fieldname, filename,
                             StrV(file.data))
    ELSE w

\* io.Copy(part, file): the bytes left in the reader go to the part, then
\* the reader's error, if it ends in one; nothing is written for no bytes
Copy(o, file, io) ==
    LET b == IF file.data = <<>> THEN [err |-> NIL, out |-> o]
             ELSE PartWrite(o, file.data, io)
    IN  IF b.err # NIL THEN b
        ELSE [err |-> IF file.fail THEN "read error" ELSE NIL, out |-> b.out]

\* the earlier variant: the header (detection reads from file), the part,
\* then io.Copy of what is left in file
WriteFileV1(w, fieldname, filename, file, io) ==
    IF w.firstErr = NIL
    THEN IF fieldname = <<>> THEN Latch(w, "empty field name")
         ELSE IF filename = <<>> THEN Latch(w, "empty file name")
         ELSE IF file.nil THEN Latch(w, "empty file reader")
         ELSE LET fh == fileFieldHeaderV1(fieldname, filename, file, w.detectCt)
                  p == CreatePart(w.out, fh.h, io)
                  c == Copy(p.out, fh.file, io)
              IN  IF p.err # NIL THEN Latch(w, p.err)
                  ELSE IF c.err # NIL THEN Latch([w EXCEPT !.out = c.out], c.err)
                  ELSE Wrote([w EXCEPT !.out = c.out], "file", fieldname, filename,
                             StrV(file.data))
    ELSE w

\* the later variant
Close(w, closeOk) ==
    IF w.firstErr # NIL THEN [w EXCEPT !.ret = w.firstErr]
    ELSE LET c == MwClose(w.out, closeOk)
         IN  [w EXCEPT !.out = c.out, !.mwRet = c.err, !.ret = c.err]

\* Close of the earlier variant returning what mw.Close returned whenever
\* that is an error
CloseV1PrefersCloseError(w, closeOk) ==
    LET c == MwClose(w.out, closeOk)
    IN  [w EXCEPT !.out = c.out, !.mwRet = c.err,
                  !.ret = IF c.err # NIL THEN c.err ELSE w.firstErr]

\* the earlier variant
CloseV1(w, closeOk) ==
    LET c == MwClose(w.out, closeOk)
    IN  IF w.firstErr # NIL
        THEN [w EXCEPT !.out = c.out, !.mwRet = c.err, !.ret = w.firstErr]
        ELSE [w EXCEPT !.out = c.out, !.mwRet = c.err, !.ret = c.err]

\* DetectContentType that also clears firstErr
DetectContentTypeResets(w, b) == [w EXCEPT !.detectCt = b, !.firstErr = NIL]

DetectContentType(w, b) == [w EXCEPT !.detectCt = b]

\* the value mw.Boundary() gives: the token mw drew at construction
Boundary(w) == [w EXCEPT !.ret = w.boundary]

FormDataContentType(w) == [w EXCEPT !.ret = "multipart/form-data; boundary=" \o w.boundary]

(***************************************************************************)
(* The state machine: NewWriter, then any sequence of calls.               *)
(***************************************************************************)
Boundaries == { "b1" }

NoCall == [op |-> "NewWriter", calls |-> 0, ret |-> NotCalled, mwRet |-> NotCalled,
           preErr |-> NIL]

\* NewWriter(w): mw over an empty stream, detection on
Init ==
    /\ variant \in {1, 2}
    /\ boundary \in Boundaries
    /\ detectCt = TRUE
    /\ firstErr = NIL
    /\ out = <<>>
    /\ errLog = <<>>
    /\ sent = <<>>
    /\ last = NoCall

\* the writer as a call finds it
W == [detectCt |-> detectCt, firstErr |-> firstErr, out |-> out,
      boundary |-> boundary, errLog |-> errLog, sent |-> sent,
      calls |-> 0, ret |-> NotCalled, mwRet |-> NotCalled]

\* the call op has turned the writer into w2, whose stream stays within max
Do(op, w2, max) ==
    /\ Len(w2.out) <= max
    /\ detectCt' = w2.detectCt
    /\ firstErr' = w2.firstErr
    /\ out' = w2.out
    /\ errLog' = w2.errLog
    /\ sent' = w2.sent
    /\ last' = [op |-> op, calls |-> w2.calls, ret |-> w2.ret, mwRet |-> w2.mwRet,
                preErr |-> firstErr]
    /\ UNCHANGED <<variant, boundary>>

Call(op, w2) == Do(op, w2, MaxOut)

CallDetectContentType ==
    /\ variant \in {1, 2}
    /\ \E b \in BOOLEAN : Call("DetectContentType", DetectContentType(W, b))

CallBoundary ==
    /\ variant \in {1, 2}
    /\ Call("Boundary", Boundary(W))

CallFormDataContentType ==
    /\ variant \in {1, 2}
    /\ Call("FormDataContentType", FormDataContentType(W))

CallWriteString ==
    /\ variant \in {1, 2}
    /\ \E f \in Names, s \in Strs, io \in IOs :
        Call("WriteString", WriteString(W, f, s, io))

CallWriteStringCond ==
    /\ variant = 2
    /\ \E f \in Names, s \in Strs, c \in Conds, io \in IOs :
        Call("WriteStringCond", WriteStringCond(W, f, s, c, io))

CallWriteAnyTextField ==
    /\ variant \in {1, 2}
    /\ \E f \in Names, v \in AnyVals, io \in IOs :
        Call("WriteAnyTextField", WriteAnyTextField(W, f, v, io))

CallWriteAnyTextFieldCond ==
    /\ variant = 2
    /\ \E f \in Names, v \in AnyVals, c \in Conds, io \in IOs :
        Call("WriteAnyTextFieldCond", WriteAnyTextFieldCond(W, f, v, c, io))

CallWriteInt ==
    /\ variant \in {1, 2}
    /\ \E f \in Names, i \in Ints, io \in IOs : Call("WriteInt", WriteInt(W, f, i, io))

CallWriteIntCond ==
    /\ variant = 2
    /\ \E f \in Names, i \in Ints, c \in Conds, io \in IOs :
        Call("WriteIntCond", WriteIntCond(W, f, i, c, io))

CallWriteBool ==
    /\ variant \in {1, 2}
    /\ \E f \in Names, b \in Bools, io \in IOs : Call("WriteBool", WriteBool(W, f, b, io))

CallWriteBoolCond ==
    /\ variant = 2
    /\ \E f \in Names, b \in Bools, c \in Conds, io \in IOs :
        Call("WriteBoolCond", WriteBoolCond(W, f, b, c, io))

CallWriteFloat32 ==
    /\ variant \in {1, 2}
    /\ \E f \in Names, x \in Floats, io \in IOs :
        Call("WriteFloat32", WriteFloat32(W, f, x, io))

CallWriteFloat32Cond ==
    /\ variant = 2
    /\ \E f \in Names, x \in Floats, c \in Conds, io \in IOs :
        Call("WriteFloat32Cond", WriteFloat32Cond(W, f, x, c, io))

CallWriteFloat64 ==
    /\ variant \in {1, 2}
    /\ \E f \in Names, x \in Floats, io \in IOs :
        Call("WriteFloat64", WriteFloat64(W, f, x, io))

CallWriteFloat64Cond ==
    /\ variant = 2
    /\ \E f \in Names, x \in Floats, c \in Conds, io \in IOs :
        Call("WriteFloat64Cond", WriteFloat64Cond(W, f, x, c, io))

CallWriteJSON ==
    /\ variant \in {1, 2}
    /\ \E f \in Names, v \in JSONVals, io \in IOs : Call("WriteJSON", WriteJSON(W, f, v, io))

CallWriteJSONCond ==
    /\ variant = 2
    /\ \E f \in Names, v \in JSONVals, c \in Conds, io \in IOs :
        Call("WriteJSONCond", WriteJSONCond(W, f, v, c, io))

CallWriteFile ==
    /\ variant = 2
    /\ \E f \in Names, n \in FileNames, r \in Readers, io \in IOs :
        Call("WriteFile", WriteFile(W, f, n, r, io))

CallWriteFileV1 ==
    /\ variant = 1
    /\ \E f \in Names, n \in FileNames, r \in Readers, io \in IOs :
        Call("WriteFile", WriteFileV1(W, f, n, r, io))

CallClose ==
    /\ variant = 2
    /\ \E closeOk \in BOOLEAN : Call("Close", Close(W, closeOk))

CallCloseV1 ==
    /\ variant = 1
    /\ \E closeOk \in BOOLEAN : Call("Close", CloseV1(W, closeOk))

Next ==
    \/ CallDetectContentType
    \/ CallBoundary
    \/ CallFormDataContentType
    \/ CallWriteString
    \/ CallWriteStringCond
    \/ CallWriteAnyTextField
    \/ CallWriteAnyTextFieldCond
    \/ CallWriteInt
    \/ CallWriteIntCond
    \/ CallWriteBool
    \/ CallWriteBoolCond
    \/ CallWriteFloat32
    \/ CallWriteFloat32Cond
    \/ CallWriteFloat64
    \/ CallWriteFloat64Cond
    \/ CallWriteJSON
    \/ CallWriteJSONCond
    \/ CallWriteFile
    \/ CallWriteFileV1
    \/ CallClose
    \/ CallCloseV1

Spec == Init /\ [][Next]_vars

(***************************************************************************)
(* Properties.  A property of a single call is stated for every call that  *)
(* can be made on the writer W of a reachable state; the history variables *)
(* say what the calls of the run did.                                      *)
(***************************************************************************)
CondOps == { "WriteStringCond", "WriteAnyTextFieldCond", "WriteIntCond", "WriteBoolCond",
             "WriteFloat32Cond", "WriteFloat64Cond", "WriteJSONCond" }
WriteOps == CondOps \cup { "WriteString", "WriteAnyTextField", "WriteInt", "WriteBool",
                           "WriteFloat32", "WriteFloat64", "WriteJSON", "WriteFile" }

\* WriteFile and Close of the variant that is running
TheWriteFile(w, fieldname, filename, file, io) ==
    IF variant = 1 THEN WriteFileV1(w, fieldname, filename, file, io)
    ELSE WriteFile(w, fieldname, filename, file, io)
TheClose(w, closeOk) == IF variant = 1 THEN CloseV1(w, closeOk) ELSE Close(w, closeOk)

\* the writers the unconditional write calls leave, for all arguments
PlainWrites(w) ==
    { WriteString(w, f, x, io) : f \in AllNames, x \in AllStrs, io \in IOs }
    \cup { WriteAnyTextField(w, f, x, io) : f \in AllNames, x \in AllAnyVals, io \in IOs }
    \cup { WriteInt(w, f, x, io) : f \in AllNames, x \in AllInts, io \in IOs }
    \cup { WriteBool(w, f, x, io) : f \in AllNames, x \in BOOLEAN, io \in IOs }
    \cup { WriteFloat32(w, f, x, io) : f \in AllNames, x \in AllFloats, io \in IOs }
    \cup { WriteFloat64(w, f, x, io) : f \in AllNames, x \in AllFloats, io \in IOs }
    \cup { WriteJSON(w, f, x, io) : f \in AllNames, x \in JSONVals, io \in IOs }
    \cup { TheWriteFile(w, f, n, r, io) :
               f \in AllNames, n \in FileNames, r \in AllReaders, io \in IOs }

\* the writers the conditional write calls of the later variant leave, the
\* evaluations of the predicate left aside
CondWrites(w) ==
    { [r EXCEPT !.calls = 0] : r \in
        { WriteStringCond(w, f, x, c, io) :
              f \in AllNames, x \in AllStrs, c \in Conds, io \in IOs }
        \cup { WriteAnyTextFieldCond(w, f, x, c, io) :
                   f \in AllNames, x \in AllAnyVals, c \in Conds, io \in IOs }
        \cup { WriteIntCond(w, f, x, c, io) :
                   f \in AllNames, x \in AllInts, c \in Conds, io \in IOs }
        \cup { WriteBoolCond(w, f, x, c, io) :
                   f \in AllNames, x \in BOOLEAN, c \in Conds, io \in IOs }
        \cup { WriteFloat32Cond(w, f, x, c, io) :
                   f \in AllNames, x \in AllFloats, c \in Conds, io \in IOs }
        \cup { WriteFloat64Cond(w, f, x, c, io) :
                   f \in AllNames, x \in AllFloats, c \in Conds, io \in IOs }
        \cup { WriteJSONCond(w, f, x, c, io) :
                   f \in AllNames, x \in JSONVals, c \in Conds, io \in IOs } }

\* the call has left the stream and firstErr as they are in the current state
Untouched(w2) == w2.firstErr = firstErr /\ w2.out = out

\* C1: once firstErr is non-nil, every write operation, with any arguments
\* and any predicate, leaves the emitted stream and firstErr as they were.
C1_LatchedWritesAreNoOps ==
    firstErr # NIL =>
        /\ \A w2 \in PlainWrites(W) : Untouched(w2)
        /\ variant = 2 => \A w2 \in CondWrites(W) : Untouched(w2)

\* a write operation has been called on a writer whose firstErr was set
C1_Witness ==
    /\ last.op \in WriteOps
    /\ last.preErr # NIL
    /\ firstErr # NIL

\* C2: firstErr changes at most once: once it is an error, no call replaces
\* it by another error or resets it to nil.
C2_FirstErrSetOnce == [][firstErr # NIL => firstErr' = firstErr]_vars

\* WriteString has been called on a writer that had latched an argument
\* error, and firstErr is still that error, the only one logged
C2_Witness ==
    /\ firstErr = "empty field name"
    /\ last.op = "WriteString"
    /\ last.preErr = firstErr
    /\ errLog = <<firstErr>>

\* C3: Close returns the error of the earliest failing write operation when
\* one failed, whatever mw.Close reports; when none failed, it returns what
\* mw.Close returned.
C3_CloseReturnsFirstError ==
    last.op = "Close" =>
        IF errLog # <<>> THEN last.ret = errLog[1]
        ELSE last.mwRet # NotCalled /\ last.ret = last.mwRet

\* Close has returned a write's error although mw.Close failed too, and
\* Close has returned the failure of mw.Close on a writer without error
C3_Witness ==
    /\ last.op = "Close"
    /\ last.mwRet = "io: close"
    /\ last.ret = "empty field value"
C3_WitnessNoError ==
    /\ last.op = "Close"
    /\ errLog = <<>>
    /\ last.ret = "io: close"

\* C4: Close invokes mw.Close, which emits the terminating boundary, when no
\* error is latched (also with no field written) and when firstErr is set.
C4_CloseAlwaysClosesMw ==
    last.op = "Close" =>
        /\ last.mwRet # NotCalled
        /\ last.mwRet = NIL => (out # <<>> /\ out[Len(out)] = End)

\* C5: on an accepting writer, every write operation that its predicate does
\* not skip and that is called with an empty field name, an empty file name
\* or a nil value or reader sets firstErr and opens no part.
Rejected(w2) == w2.firstErr # NIL /\ w2.out = out
C5_InvalidArgumentsLatch ==
    firstErr = NIL =>
        /\ \A s \in AllStrs, io \in IOs : Rejected(WriteString(W, <<>>, s, io))
        /\ \A f \in AllNames, x \in AllAnyVals, io \in IOs :
               (f = <<>> \/ x = Nil) => Rejected(WriteAnyTextField(W, f, x, io))
        /\ \A x \in AllInts, io \in IOs : Rejected(WriteInt(W, <<>>, x, io))
        /\ \A x \in BOOLEAN, io \in IOs : Rejected(WriteBool(W, <<>>, x, io))
        /\ \A x \in AllFloats, io \in IOs : Rejected(WriteFloat32(W, <<>>, x, io))
        /\ \A x \in AllFloats, io \in IOs : Rejected(WriteFloat64(W, <<>>, x, io))
        /\ \A f \in AllNames, x \in JSONVals, io \in IOs :
               (f = <<>> \/ x = Nil) => Rejected(WriteJSON(W, f, x, io))
        /\ \A f \in AllNames, n \in FileNames, r \in AllReaders, io \in IOs :
               (f = <<>> \/ n = <<>> \/ r.nil) => Rejected(TheWriteFile(W, f, n, r, io))
        /\ variant = 2 =>
            /\ \A s \in AllStrs, io \in IOs :
                   Rejected(WriteStringCond(W, <<>>, s, <<TRUE, TRUE>>, io))
            /\ \A f \in AllNames, x \in AllAnyVals, io \in IOs :
                   (f = <<>> \/ x = Nil) =>
                       Rejected(WriteAnyTextFieldCond(W, f, x, <<TRUE, TRUE>>, io))
            /\ \A x \in AllInts, io \in IOs :
                   Rejected(WriteIntCond(W, <<>>, x, <<TRUE, TRUE>>, io))
            /\ \A x \in BOOLEAN, io \in IOs :
                   Rejected(WriteBoolCond(W, <<>>, x, <<TRUE, TRUE>>, io))
            /\ \A x \in AllFloats, io \in IOs :
                   Rejected(WriteFloat32Cond(W, <<>>, x, <<TRUE, TRUE>>, io))
            /\ \A x \in AllFloats, io \in IOs :
                   Rejected(WriteFloat64Cond(W, <<>>, x, <<TRUE, TRUE>>, io))
            /\ \A f \in AllNames, x \in JSONVals, io \in IOs :
                   (f = <<>> \/ x = Nil) =>
                       Rejected(WriteJSONCond(W, f, x, <<TRUE, TRUE>>, io))

\* C6: a conditional text write whose predicate answers false opens no part
\* and leaves firstErr as it was, also with an empty field name or a nil
\* value, on an accepting and on a latched writer.
C6_SkippedTextWriteIsNoOp ==
    variant = 2 =>
        \A c \in Conds, f \in AllNames, io \in IOs :
            ~c[1] =>
                /\ \A x \in AllStrs : Untouched(WriteStringCond(W, f, x, c, io))
                /\ \A x \in AllAnyVals : Untouched(WriteAnyTextFieldCond(W, f, x, c, io))
                /\ \A x \in AllInts : Untouched(WriteIntCond(W, f, x, c, io))
                /\ \A x \in BOOLEAN : Untouched(WriteBoolCond(W, f, x, c, io))
                /\ \A x \in AllFloats : Untouched(WriteFloat32Cond(W, f, x, c, io))
                /\ \A x \in AllFloats : Untouched(WriteFloat64Cond(W, f, x, c, io))

\* WriteAnyTextFieldCond has been called on an accepting writer, has asked
\* its predicate once and has left the writer accepting: it was skipped
C6_Witness ==
    /\ last.op = "WriteAnyTextFieldCond"
    /\ last.calls = 1
    /\ last.preErr = NIL
    /\ firstErr = NIL

\* the two calls leave the same firstErr and the same stream
SameEffect(w1, w2) == w1.firstErr = w2.firstErr /\ w1.out = w2.out

\* C7: with a predicate that answers true, WriteAnyTextFieldCond(field, val,
\* cond) has the effect of WriteAnyTextField(field, val) from the same state,
\* for every field and every val, nil included.
C7_CondTrueIsPlainWrite ==
    variant = 2 =>
        \A f \in AllNames, x \in AllAnyVals, io \in IOs :
            SameEffect(WriteAnyTextFieldCond(W, f, x, <<TRUE, TRUE>>, io),
                       WriteAnyTextField(W, f, x, io))

\* the last call was a WriteFile on an accepting writer and it did not fail
FileWritten == last.op = "WriteFile" /\ last.preErr = NIL /\ firstErr = NIL
LastPart == out[Len(out)]
LastSent == sent[Len(sent)]

\* C8: the body of the part a successful WriteFile writes is the whole byte
\* sequence its reader yields, with detection on or off.
C8_FileBodyIsReaderBytes ==
    FileWritten =>
        /\ LastSent.op = "file"
        /\ LastPart.t = "part"
        /\ LastPart.body = LastSent.val.v

\* C9: a part written by WriteFile carries a Content-Type: the sniffer's
\* result for the payload when detection is enabled at the call, and
\* application/octet-stream when it is disabled.
C9_FileContentType ==
    FileWritten =>
        /\ LastPart.ct # NoCT
        /\ LastPart.ct = IF detectCt THEN Detect(LastSent.val.v) ELSE OctetStream

(***************************************************************************)
(* Round trip: the calls of TestWriter_AnyWrites with names that need      *)
(* escaping, and the stream read back as mime/multipart.Reader reads it.   *)
(***************************************************************************)
MaxStream == 3      \* parts and terminating boundaries of a round trip

RoundNames == { <<"a">>, <<QUOTE>>, <<"a", BACKSLASH>> }
RoundInts == { 42, -7 }
RoundIOs == { "ok" }          \* the sink is a bytes.Buffer: no write fails

RoundWriteString ==
    /\ variant \in {1, 2}
    /\ \E f \in RoundNames, x \in Strs, io \in RoundIOs :
        Do("WriteString", WriteString(W, f, x, io), MaxStream)

RoundWriteInt ==
    /\ variant \in {1, 2}
    /\ \E f \in RoundNames, x \in RoundInts, io \in RoundIOs :
        Do("WriteInt", WriteInt(W, f, x, io), MaxStream)

RoundWriteBool ==
    /\ variant \in {1, 2}
    /\ \E f \in RoundNames, x \in BOOLEAN, io \in RoundIOs :
        Do("WriteBool", WriteBool(W, f, x, io), MaxStream)

RoundWriteFile ==
    /\ variant = 2
    /\ \E f \in RoundNames, r \in Readers, io \in RoundIOs :
        Do("WriteFile", WriteFile(W, f, <<"f">>, r, io), MaxStream)

RoundWriteFileV1 ==
    /\ variant = 1
    /\ \E f \in RoundNames, r \in Readers, io \in RoundIOs :
        Do("WriteFile", WriteFileV1(W, f, <<"f">>, r, io), MaxStream)

RoundClose ==
    /\ variant = 2
    /\ Do("Close", Close(W, TRUE), MaxStream)

RoundCloseV1 ==
    /\ variant = 1
    /\ Do("Close", CloseV1(W, TRUE), MaxStream)

NextRoundTrip ==
    \/ RoundWriteString
    \/ RoundWriteInt
    \/ RoundWriteBool
    \/ RoundWriteFile
    \/ RoundWriteFileV1
    \/ RoundClose
    \/ RoundCloseV1

SpecRoundTrip == Init /\ [][NextRoundTrip]_vars

RECURSIVE Unquote(_)
\* the value of a quoted parameter as mime.ParseMediaType reads it: a
\* backslash before a backslash or a quote escapes it, a bare quote ends
\* the value
Unquote(q) ==
    IF q = <<>> THEN <<>>
    ELSE IF Head(q) = BACKSLASH /\ Len(q) >= 2 /\ q[2] \in {BACKSLASH, QUOTE}
         THEN <<q[2]>> \o Unquote(SubSeq(q, 3, Len(q)))
    ELSE IF Head(q) = QUOTE THEN <<>>
    ELSE <<Head(q)>> \o Unquote(Tail(q))

RECURSIVE Decode(_)
\* the parts multipart.Reader.NextPart yields up to the terminating
\* boundary: FormName, FileName and the body
Decode(o) ==
    IF o = <<>> \/ Head(o).t = "end" THEN <<>>
    ELSE <<[name |-> Unquote(Head(o).name), file |-> Head(o).file,
            filename |-> Unquote(Head(o).filename), body |-> Head(o).body]>>
         \o Decode(Tail(o))

DigitOf(ch) == CHOOSE d \in 0..9 : DigitChars[d + 1] = ch

RECURSIVE Atoi(_)
\* the number a decimal text stands for
Atoi(t) ==
    IF t = <<>> THEN 0
    ELSE IF Head(t) = "-" THEN -Atoi(Tail(t))
    ELSE 10 * Atoi(SubSeq(t, 1, Len(t) - 1)) + DigitOf(t[Len(t)])

\* body is the value of the call c as the claim words it
BodyOf(body, c) ==
    CASE c.val.k = "string" -> body = c.val.v
      [] c.val.k = "int" -> body # <<>> /\ Atoi(body) = c.val.v
      [] c.val.k = "bool" -> body = IF c.val.v THEN <<"t", "r", "u", "e">>
                                    ELSE <<"f", "a", "l", "s", "e">>
      [] OTHER -> TRUE

\* write calls that all succeeded, then Close, which succeeded too
ClosedCleanly ==
    /\ last.op = "Close"
    /\ last.ret = NIL
    /\ errLog = <<>>
    /\ Cardinality({ i \in 1..Len(out) : out[i].t = "end" }) = 1

\* C10: after write calls that all succeed and Close, decoding the stream
\* yields one part per write call that was not skipped, in call order, with
\* the field name and file name passed and the value written as body.
C10_RoundTrip ==
    ClosedCleanly =>
        LET d == Decode(out)
        IN  /\ Len(d) = Len(sent)
            /\ \A i \in 1..Len(d) :
                /\ d[i].name = sent[i].field
                /\ d[i].file = (sent[i].op = "file")
                /\ d[i].filename = sent[i].filename
                /\ BodyOf(d[i].body, sent[i])

(***************************************************************************)
(* Name escaping: escapeQuotes applied to every name over a small alphabet, *)
(* through the headers of text parts and file parts.                       *)
(***************************************************************************)
MaxNameLen == 2     \* characters of a name
MaxEscaped == 2     \* parts of the stream

EscChars == { "a", QUOTE, BACKSLASH }
EscNames == UNION { [1..n -> EscChars] : n \in 1..MaxNameLen }

EscapeFieldName ==
    /\ variant \in {1, 2}
    /\ \E f \in EscNames :
        Do("WriteInt", WriteInt(W, f, 42, "ok"), MaxEscaped)

EscapeFileName ==
    /\ variant = 2
    /\ \E n \in EscNames :
        Do("WriteFile", WriteFile(W, <<"a">>, n, Reader(<<>>, FALSE), "ok"), MaxEscaped)

EscapeFileNameV1 ==
    /\ variant = 1
    /\ \E n \in EscNames :
        Do("WriteFile", WriteFileV1(W, <<"a">>, n, Reader(<<>>, FALSE), "ok"), MaxEscaped)

NextEscape ==
    \/ EscapeFieldName
    \/ EscapeFileName
    \/ EscapeFileNameV1

SpecEscape == Init /\ [][NextEscape]_vars

RECURSIVE EscapedAsClaimed(_)
\* the escaped name as the claim words it: a backslash becomes two
\* backslashes, a double quote becomes a backslash and the quote, any other
\* character stays
EscapedAsClaimed(raw) ==
    IF raw = <<>> THEN <<>>
    ELSE (CASE Head(raw) = BACKSLASH -> <<BACKSLASH, BACKSLASH>>
            [] Head(raw) = QUOTE -> <<BACKSLASH, QUOTE>>
            [] OTHER -> <<Head(raw)>>)
         \o EscapedAsClaimed(Tail(raw))

\* the name of part i that escapeQuotes was applied to, and its result
RawName(i) == IF sent[i].op = "file" THEN sent[i].filename ELSE sent[i].field
EscapedName(i) == IF sent[i].op = "file" THEN out[i].filename ELSE out[i].name

\* C11: the name a header carries is the name that was passed with every
\* backslash doubled and every double quote kept behind a backslash, and two
\* different names never give the same escaped name.
C11_EscapeQuotes ==
    /\ \A i \in 1..Len(out) : EscapedName(i) = EscapedAsClaimed(RawName(i))
    /\ \A i, j \in 1..Len(out) :
        RawName(i) # RawName(j) => EscapedName(i) # EscapedName(j)

(***************************************************************************)
(* Conditional writes and their predicates.                                *)
(***************************************************************************)
\* C12: whatever the state and the arguments, a call of a conditional write
\* has invoked its predicate exactly once when it returns.
C12_PredicateAskedOnce == last.op \in CondOps => last.calls = 1

\* C13: on an accepting writer WriteJSONCond with an empty field name sets
\* firstErr and appends nothing, whatever its predicate would answer, while
\* WriteAnyTextFieldCond with an empty field name and a predicate answering
\* false changes neither firstErr nor the stream.
C13_EmptyNameJSONCondLatches ==
    (variant = 2 /\ firstErr = NIL) =>
        \A v \in JSONVals, c \in Conds, io \in IOs :
            /\ LET w2 == WriteJSONCond(W, <<>>, v, c, io)
               IN  w2.firstErr = "empty field name" /\ w2.out = out
            /\ ~c[1] => Untouched(WriteAnyTextFieldCond(W, <<>>, v, c, io))

\* WriteJSONCond("", v, cond) has just latched on an accepting writer
C13_Witness ==
    /\ last.op = "WriteJSONCond"
    /\ last.preErr = NIL
    /\ last.calls = 0
    /\ firstErr = "empty field name"

\* C14: WriteJSONCond with a non-empty field name and a nil value changes
\* neither the stream nor firstErr, whatever its predicate answers; with a
\* non-nil value and a predicate answering true it leaves the stream and
\* firstErr as WriteJSON does.
C14_JSONCondNilIsSkipped ==
    variant = 2 =>
        \A f \in AllNames \ {<<>>}, c \in Conds, io \in IOs :
            /\ Untouched(WriteJSONCond(W, f, Nil, c, io))
            /\ \A v \in JSONVals :
                (v.k # "nil" /\ c[1]) => SameEffect(WriteJSONCond(W, f, v, c, io), WriteJSON(W, f, v, io))

(***************************************************************************)
(* Configuration and accessors: a writer whose boundary token is one of    *)
(* two, with enough writes around the accessor calls to fill the stream,   *)
(* latch an error and close.                                               *)
(***************************************************************************)
Tokens == { "b1", "b2" }

\* NewWriter(w): multipart.NewWriter draws the token
InitTokens ==
    /\ variant \in {1, 2}
    /\ boundary \in Tokens
    /\ detectCt = TRUE
    /\ firstErr = NIL
    /\ out = <<>>
    /\ errLog = <<>>
    /\ sent = <<>>
    /\ last = NoCall

NextAccessors ==
    \/ CallDetectContentType
    \/ CallBoundary
    \/ CallFormDataContentType
    \/ CallWriteString
    \/ CallWriteInt
    \/ CallClose
    \/ CallCloseV1

SpecAccessors == InitTokens /\ [][NextAccessors]_vars

Accessors == { "Boundary", "FormDataContentType" }

\* C15: a call of DetectContentType leaves firstErr and the stream as they
\* were, a call of Boundary or FormDataContentType leaves the flag, firstErr
\* and the stream as they were, whether firstErr is set or not, and every
\* call of Boundary returns the token the writer was constructed with.
C15_AccessorsChangeNothing ==
    [][/\ last'.op = "DetectContentType" => (firstErr' = firstErr /\ out' = out)
       /\ last'.op \in Accessors =>
            (detectCt' = detectCt /\ firstErr' = firstErr /\ out' = out)
       /\ last'.op = "Boundary" => last'.ret = boundary
       /\ boundary' = boundary]_vars

\* an accessor or DetectContentType was called on a latched writer whose
\* stream is not empty
C15_Witness ==
    /\ last.op \in Accessors \cup { "DetectContentType" }
    /\ last.preErr # NIL
    /\ firstErr = last.preErr
    /\ out # <<>>

(***************************************************************************)
(* The writer after Close.                                                 *)
(***************************************************************************)
\* C16: once Close has emitted the terminating boundary nothing follows it:
\* no later write appends a part and no later Close appends a second
\* terminating boundary, so the terminating boundary is the last element of
\* the stream and occurs at most once.
C16_NothingAfterClose ==
    \A i \in 1..Len(out) : out[i].t = "end" => i = Len(out)

(***************************************************************************)
(* WriteFile and a reader that fails.                                      *)
(***************************************************************************)
\* C17: on an accepting writer a WriteFile call with valid arguments whose
\* reader ends in a read error, over a sink that takes every write, sets
\* firstErr to the read error and appends nothing to the stream.
C17_ReadFailureAppendsNothing ==
    firstErr = NIL =>
        \A f \in AllNames \ {<<>>}, d \in AllPayloads :
            LET w2 == TheWriteFile(W, f, <<"f">>, Reader(d, TRUE), "ok")
            IN  w2.firstErr = "read error" /\ w2.out = out

====
